---- MODULE Spec2Model ----
(***************************************************************************)
(* A model of prody/atomic/chain.py: the residue-name table AAMAP, the     *)
(* module function getSequence, and the class Chain (construction and      *)
(* registration in a Segment, residue lookup, indexing and slicing,        *)
(* sequence derivation with its cache, chain identifier access and the     *)
(* selection string).                                                      *)
(*                                                                         *)
(* Python values: None is the empty tuple and any other optional value v   *)
(* is the one-element tuple <<v>>; a raised exception is <<"raise", name>>.*)
(* Strings are TLA+ strings, '+', ''.join and format are \o.               *)
(***************************************************************************)
EXTENDS Integers, Sequences, FiniteSets, TLC

VARIABLES
    chids,      \* atom table, chain identifier column: atom index -> chid
    resname,    \* atom table, residue names: Residue id -> name
    hasCA,      \* atom table: Residue id -> whether 'calpha' selects an atom of it
    reskey,     \* Residue id -> <<resnum, icode>> the Residue was registered under
    indices,    \* Chain -> _indices, an ascending tuple of atom indices
    selstr,     \* Chain -> _selstr (None or a string)
    segment,    \* Chain -> _segment (None or <<segment name>>)
    seq,        \* Chain -> _seq (None or <<string>>)
    dict,       \* Chain -> _dict: <<resnum, icode>> -> position in _list (from 0)
    dictOrder,  \* Chain -> the order in which _dict.iteritems() yields the keys
    list,       \* Chain -> _list, the Residue ids in registration order
    seg_list,   \* Segment._list: the Chains registered, in order
    seg_dict,   \* Segment._dict: chid -> position in Segment._list (from 0)
    seg_keys,   \* history: the chid each entry of Segment._list was recorded under
    seg_selstr, \* what Segment.getSelstr() returns
    resnames,   \* the argument of the module function getSequence
    firstSeq,   \* history: Chain -> result of its first getSequence(allres=False)
    op,         \* the last call, <<name, arguments...>>
    ret         \* what the last call returned

vars == <<chids, resname, hasCA, reskey, indices, selstr, segment, seq, dict,
          dictOrder, list, seg_list, seg_dict, seg_keys, seg_selstr, resnames,
          firstSeq, op, ret>>

tableVars == <<chids, resname, hasCA>>
chainVars == <<indices, selstr, segment, seq, dict, dictOrder, list, reskey>>
segVars == <<seg_list, seg_dict, seg_keys, seg_selstr>>

(***************************************************************************)
(* Bounds of the model.                                                    *)
(***************************************************************************)
NAtoms == 2
MaxChains == 2
MaxRes == 2
MaxResnum == 1
MaxNames == 3

Atoms == 0 .. (NAtoms - 1)
Chids == {"A", "B"}
ResNums == (0 - MaxResnum) .. MaxResnum
SliceBounds == (0 - MaxResnum) .. (MaxResnum + 1)
SliceSteps == {1, 2}
ResNames == {"ALA", "GLY", "SEP", "A", "HOH"}
ChainResNames == {"ALA", "A", "HOH"}
Selstrs == {"", "resname ALA"}
SegSelstrs == {"segname S", "segname S and (protein)"}
SegName == "S"

(***************************************************************************)
(* Python values.                                                          *)
(***************************************************************************)
None == <<>>
Some(v) == <<v>>
Raise(e) == <<"raise", e>>
Opt(S) == {None} \cup {Some(v) : v \in S}
\* truth value of an optional string: None and '' are false
Truthy(x) == x # None /\ x[1] # ""
\* x or None
OrNone(x) == IF Truthy(x) THEN x ELSE None

Range(f) == {f[x] : x \in DOMAIN f}
EmptyDict == [k \in {} |-> 0]
\* d[k] = v on a dict
Put(d, k, v) == (k :> v) @@ d
\* d.get(k), d.get(k, default)
Get(d, k) == IF k \in DOMAIN d THEN Some(d[k]) ELSE None
GetDefault(d, k, default) == IF k \in DOMAIN d THEN d[k] ELSE default

RECURSIVE Join(_)
Join(strs) == IF strs = <<>> THEN "" ELSE Head(strs) \o Join(Tail(strs))

InsertAt(s, i, x) == SubSeq(s, 1, i) \o <<x>> \o SubSeq(s, i + 1, Len(s))

(***************************************************************************)
(* AAMAP and the module function getSequence.                              *)
(***************************************************************************)
AAMAP_Standard ==
    [ALA |-> "A", ARG |-> "R", ASN |-> "N", ASP |-> "D", CYS |-> "C",
     GLN |-> "Q", GLU |-> "E", GLY |-> "G", HIS |-> "H", ILE |-> "I",
     LEU |-> "L", LYS |-> "K", MET |-> "M", PHE |-> "F", PRO |-> "P",
     SER |-> "S", THR |-> "T", TRP |-> "W", TYR |-> "Y", VAL |-> "V",
     ASX |-> "B", GLX |-> "Z", SEC |-> "U", PYL |-> "O", XLE |-> "J"]

AAMAP_Modified ==
    [PTR |-> "Y", TPO |-> "T", SEP |-> "S", CSO |-> "C",
     HSD |-> "H", HSP |-> "H", HSE |-> "H"]

\* a faulty variant: identity entries for the one-letter codes
AAMAP_ReverseIdentity ==
    [a \in Range(AAMAP_Standard) |-> a]

\* for aaa, a in AAMAP.iteritems(): _[a] = aaa
AAMAP_Reverse ==
    [a \in Range(AAMAP_Standard) |->
        CHOOSE aaa \in DOMAIN AAMAP_Standard : AAMAP_Standard[aaa] = a]

\* AAMAP.update(_); AAMAP.update({'PTR': 'Y', ...})
AAMAP == AAMAP_Modified @@ (AAMAP_Reverse @@ AAMAP_Standard)

getSequence(rns) ==
    Join([i \in 1 .. Len(rns) |-> GetDefault(AAMAP, rns[i], "X")])

(***************************************************************************)
(* What Chain uses of AtomSubset, Residue and Segment (not in chain.py).   *)
(***************************************************************************)
\* AtomSubset.setChids(chid): the identifier of every atom of the subset
setChids(tbl, idx, v) ==
    [a \in DOMAIN tbl |-> IF a \in Range(idx) THEN v ELSE tbl[a]]

\* AtomSubset._getResnums(): the residue numbers of the atoms of the chain
getResnums(c) ==
    {reskey[list[c][i]][1] : i \in 1 .. Len(list[c])}

\* AtomSubset.calpha: the alpha carbons of the chain, None when there is none
calpha(c) ==
    LET ca == SelectSeq(list[c], LAMBDA r : hasCA[r])
    IN  IF ca = <<>> THEN None ELSE Some(ca)

\* Residue.getResname(), AtomSubset.getResnames() of a tuple of Residues
getResname(r) == resname[r]
getResnames(rs) == [i \in 1 .. Len(rs) |-> resname[rs[i]]]

\* Segment.getSelstr()
Segment_getSelstr == seg_selstr

\* the append contract of the builder: Residue r under key in _dict, _list
Register_Overwrite(d, l, key, r) ==
    <<Put(d, key, Len(l)), Append(l, r), None>>

Register(d, l, key, r) ==
    IF key \in DOMAIN d
    THEN <<d, l, Raise("DuplicateKey")>>
    ELSE <<Put(d, key, Len(l)), Append(l, r), None>>

(***************************************************************************)
(* Chain: the methods as functions of the state.                           *)
(***************************************************************************)
Chains == DOMAIN indices
Residues == DOMAIN resname

\* a faulty variant: the identifier of the table's first row
getChid_FirstRow(c) == chids[0]

getChid(c) == chids[indices[c][1]]

\* a faulty variant: 'if index:' for 'if index is not None:'
getResidue_IfIndex(c, resnum, icode) ==
    LET index == Get(dict[c], <<resnum, OrNone(icode)>>)
    IN  IF index # None /\ index[1] # 0
        THEN Some(list[c][index[1] + 1]) ELSE None

getResidue(c, resnum, icode) ==
    LET index == Get(dict[c], <<resnum, OrNone(icode)>>)
    IN  IF index # None THEN Some(list[c][index[1] + 1]) ELSE None

\* slice.indices(length) of CPython 2 for a positive step
SliceBound(b, length) ==
    LET b1 == IF b < 0 THEN b + length ELSE b
        b2 == IF b1 < 0 THEN 0 ELSE b1
    IN  IF b2 >= length THEN length ELSE b2

SliceIndices(start, stop, step, length) ==
    <<IF start = None THEN 0 ELSE SliceBound(start[1], length),
      IF stop = None THEN length ELSE SliceBound(stop[1], length),
      IF step = None THEN 1 ELSE step[1]>>

\* set(np.arange(start, stop, step))
Arange(ind) ==
    {n \in ind[1] .. (ind[2] - 1) : (n - ind[1]) % ind[3] = 0}

SetMax(S) == CHOOSE m \in S : \A n \in S : n <= m

getitem(c, key) ==
    IF key[1] = "tuple"
    THEN getResidue(c, key[2][1], IF Len(key[2]) > 1 THEN key[2][2] ELSE None)
    ELSE IF key[1] = "slice"
    THEN IF getResnums(c) = {}
         THEN Raise("ValueError")
         ELSE LET rns == Arange(SliceIndices(key[2], key[3], key[4],
                                             SetMax(getResnums(c)) + 1))
                  hit == SelectSeq(dictOrder[c], LAMBDA k : k[1] \in rns)
              IN  Some([i \in 1 .. Len(hit) |-> list[c][dict[c][hit[i]] + 1]])
    ELSE getResidue(c, key[2], None)

\* <<the string returned, the new _seq>>
Chain_getSequence(c, allres) ==
    IF allres
    THEN <<Join([i \in 1 .. Len(list[c]) |->
                    GetDefault(AAMAP, getResname(list[c][i]), "X")]),
           seq[c]>>
    ELSE IF Truthy(seq[c])
    THEN <<seq[c][1], seq[c]>>
    ELSE LET s == IF calpha(c) # None
                  THEN getSequence(getResnames(calpha(c)[1]))
                  ELSE ""
         IN  <<s, Some(s)>>

\* a faulty variant: the stored selection string before the Segment's
getSelstr_OwnFirst(c) ==
    IF Truthy(selstr[c])
    THEN "chain " \o getChid(c) \o " and (" \o selstr[c][1] \o ")"
    ELSE IF segment[c] = None
    THEN "chain " \o getChid(c)
    ELSE "chain " \o getChid(c) \o " and (" \o Segment_getSelstr \o ")"

getSelstr(c) ==
    IF segment[c] = None
    THEN IF Truthy(selstr[c])
         THEN "chain " \o getChid(c) \o " and (" \o selstr[c][1] \o ")"
         ELSE "chain " \o getChid(c)
    ELSE "chain " \o getChid(c) \o " and (" \o Segment_getSelstr \o ")"

(***************************************************************************)
(* The operations.  Every call records itself in op and its result in ret. *)
(***************************************************************************)
\* a faulty variant: the Chain appended before its position is taken
SegmentRegister_AppendFirst(sd, sl, chid, c) ==
    <<Put(sd, chid, Len(Append(sl, c))), Append(sl, c)>>

\* segment._dict[self.getChid()] = len(segment._list)
\* segment._list.append(self)
SegmentRegister(sd, sl, chid, c) ==
    <<Put(sd, chid, Len(sl)), Append(sl, c)>>

\* Chain(ag, indices, selstr=sel, segment=sg)
ChainInit(idx, sel, sg) ==
    /\ Len(indices) < MaxChains
    /\ LET c == Len(indices) + 1
       IN  /\ indices' = Append(indices, idx)
           /\ selstr' = Append(selstr, sel)
           /\ seq' = Append(seq, None)
           /\ dict' = Append(dict, EmptyDict)
           /\ dictOrder' = Append(dictOrder, <<>>)
           /\ list' = Append(list, <<>>)
           /\ firstSeq' = Append(firstSeq, None)
           /\ IF sg # None
              THEN /\ seg_dict' = SegmentRegister(seg_dict, seg_list, chids[idx[1]], c)[1]
                   /\ seg_list' = SegmentRegister(seg_dict, seg_list, chids[idx[1]], c)[2]
                   /\ seg_keys' = Append(seg_keys, chids[idx[1]])
              ELSE UNCHANGED <<seg_dict, seg_list, seg_keys>>
           /\ segment' = Append(segment, sg)
           /\ op' = <<"init", c>>
           /\ ret' = None
    /\ UNCHANGED <<tableVars, reskey, seg_selstr, resnames>>

\* the builder registers a new Residue, numbered resnum and icode in the
\* table, with the Chain; pos is where the hash of the key puts it in the
\* iteration order of _dict
AppendResidue(c, resnum, icode, name, ca, pos) ==
    /\ Len(resname) < MaxRes
    /\ pos <= Len(dictOrder[c])
    /\ LET r == Len(resname) + 1
           key == <<resnum, OrNone(icode)>>
           reg == Register(dict[c], list[c], key, r)
       IN  /\ dict' = [dict EXCEPT ![c] = reg[1]]
           /\ list' = [list EXCEPT ![c] = reg[2]]
           /\ ret' = reg[3]
           /\ dictOrder' = IF key \in DOMAIN dict[c] THEN dictOrder
                           ELSE [dictOrder EXCEPT ![c] = InsertAt(@, pos, key)]
           /\ IF reg[2] # list[c]
              THEN /\ resname' = Append(resname, name)
                   /\ hasCA' = Append(hasCA, ca)
                   /\ reskey' = Append(reskey, key)
              ELSE UNCHANGED <<resname, hasCA, reskey>>
           /\ op' = <<"append", c, resnum, icode>>
    /\ UNCHANGED <<chids, indices, selstr, segment, seq, segVars, resnames,
                   firstSeq>>

GetResidue(c, resnum, icode) ==
    /\ op' = <<"getResidue", c, resnum, icode>>
    /\ ret' = getResidue(c, resnum, icode)
    /\ UNCHANGED <<tableVars, chainVars, segVars, resnames, firstSeq>>

GetItem(c, key) ==
    /\ op' = <<"getitem", c, key>>
    /\ ret' = getitem(c, key)
    /\ UNCHANGED <<tableVars, chainVars, segVars, resnames, firstSeq>>

GetSequence(c, allres) ==
    /\ op' = <<"getSequence", c, allres>>
    /\ ret' = Some(Chain_getSequence(c, allres)[1])
    /\ seq' = [seq EXCEPT ![c] = Chain_getSequence(c, allres)[2]]
    /\ firstSeq' = IF ~allres /\ firstSeq[c] = None
                   THEN [firstSeq EXCEPT ![c] = Some(Chain_getSequence(c, allres)[1])]
                   ELSE firstSeq
    /\ UNCHANGED <<tableVars, reskey, indices, selstr, segment, dict,
                   dictOrder, list, segVars, resnames>>

GetChid(c) ==
    /\ op' = <<"getChid", c>>
    /\ ret' = Some(getChid(c))
    /\ UNCHANGED <<tableVars, chainVars, segVars, resnames, firstSeq>>

SetChid(c, chid) ==
    /\ chids' = setChids(chids, indices[c], chid)
    /\ op' = <<"setChid", c, chid>>
    /\ ret' = None
    /\ UNCHANGED <<resname, hasCA, chainVars, segVars, resnames, firstSeq>>

GetSelstr(c) ==
    /\ op' = <<"getSelstr", c>>
    /\ ret' = Some(getSelstr(c))
    /\ UNCHANGED <<tableVars, chainVars, segVars, resnames, firstSeq>>

\* a write to the chain identifier column of the table, past the Chain
WriteChid(a, chid) ==
    /\ chids[a] # chid
    /\ chids' = [chids EXCEPT ![a] = chid]
    /\ op' = <<"writeChid", a, chid>>
    /\ ret' = None
    /\ UNCHANGED <<resname, hasCA, chainVars, segVars, resnames, firstSeq>>

\* a write to the residue names of the table
WriteResname(r, name) ==
    /\ resname[r] # name
    /\ resname' = [resname EXCEPT ![r] = name]
    /\ op' = <<"writeResname", r, name>>
    /\ ret' = None
    /\ UNCHANGED <<chids, hasCA, chainVars, segVars, resnames, firstSeq>>

\* a write to the atom names of the table that gives Residue r an alpha
\* carbon, or takes it away
WriteCA(r, ca) ==
    /\ hasCA[r] # ca
    /\ hasCA' = [hasCA EXCEPT ![r] = ca]
    /\ op' = <<"writeCA", r, ca>>
    /\ ret' = None
    /\ UNCHANGED <<chids, resname, chainVars, segVars, resnames, firstSeq>>

\* getSequence(resnames), the module function
CallGetSequence ==
    /\ op[1] # "chain.getSequence"
    /\ op' = <<"chain.getSequence">>
    /\ ret' = Some(getSequence(resnames))
    /\ UNCHANGED <<tableVars, chainVars, segVars, resnames, firstSeq>>

(***************************************************************************)
(* Inputs.                                                                 *)
(***************************************************************************)
\* the index tuples a Chain is built over: the runs of atoms of the table
IndexTuples ==
    {[i \in 1 .. (b - a + 1) |-> a + i - 1] : a \in Atoms, b \in Atoms} \ {<<>>}
ICodes == {None, Some(""), Some("A")}
NameLists == UNION {[1 .. n -> ResNames] : n \in 0 .. MaxNames}
SliceKeys ==
    {<<"slice", start, stop, step>> :
        start \in Opt(SliceBounds), stop \in Opt(SliceBounds),
        step \in Opt(SliceSteps)}
LookupKeys ==
    {<<"tuple", <<n, ic>>>> : n \in ResNums, ic \in ICodes}
    \cup {<<"tuple", <<n>>>> : n \in ResNums}
    \cup {<<"scalar", n>> : n \in ResNums}

(***************************************************************************)
(* Initial states: the module is imported and the table is loaded; no      *)
(* Chain is built yet.                                                     *)
(***************************************************************************)
InitWith(tables, segsels, inputs) ==
    /\ chids \in tables
    /\ resname = <<>> /\ hasCA = <<>> /\ reskey = <<>>
    /\ indices = <<>> /\ selstr = <<>> /\ segment = <<>> /\ seq = <<>>
    /\ dict = <<>> /\ dictOrder = <<>> /\ list = <<>> /\ firstSeq = <<>>
    /\ seg_list = <<>> /\ seg_dict = EmptyDict /\ seg_keys = <<>>
    /\ seg_selstr \in segsels
    /\ resnames \in inputs
    /\ op = <<"import">>
    /\ ret = None

OneTable == {[a \in Atoms |-> "A"]}
OneSegsel == {"segname S"}

(***************************************************************************)
(* SpecTable: the module function getSequence on lists of names.           *)
(***************************************************************************)
InitTable == InitWith(OneTable, OneSegsel, NameLists)
NextTable == CallGetSequence
SpecTable == InitTable /\ [][NextTable]_vars

(***************************************************************************)
(* SpecLookup: a Chain, the builder registering Residues, and lookups.     *)
(***************************************************************************)
BuildOne ==
    Len(indices) = 0 /\ ChainInit(<<0>>, None, None)

\* a lookup does not iterate _dict: the new key goes last in its order
RegisterKey ==
    \E c \in Chains, n \in ResNums, ic \in ICodes :
        AppendResidue(c, n, ic, "ALA", TRUE, Len(dictOrder[c]))

LookupResidue ==
    \E c \in Chains, n \in ResNums, ic \in ICodes : GetResidue(c, n, ic)

LookupItem ==
    \E c \in Chains, key \in LookupKeys : GetItem(c, key)

InitLookup == InitWith(OneTable, OneSegsel, {<<>>})
NextLookup == BuildOne \/ RegisterKey \/ LookupResidue \/ LookupItem
SpecLookup == InitLookup /\ [][NextLookup]_vars

(***************************************************************************)
(* SpecSlice: a Chain, the builder registering Residues, and slices.       *)
(***************************************************************************)
\* the hash of the new key decides its place in the order of _dict
RegisterAny ==
    \E c \in Chains, n \in ResNums, ic \in ICodes, pos \in 0 .. MaxRes :
        AppendResidue(c, n, ic, "ALA", TRUE, pos)

SliceItem ==
    \E c \in Chains, key \in SliceKeys : GetItem(c, key)

NextSlice == BuildOne \/ RegisterAny \/ SliceItem
SpecSlice == InitLookup /\ [][NextSlice]_vars

(***************************************************************************)
(* SpecSeq: a Chain, its Residues, writes to the table and getSequence.    *)
(***************************************************************************)
\* the builder fills the Chain before it hands it out
RegisterNext ==
    /\ op[1] \in {"init", "append"}
    /\ \E c \in Chains, name \in ChainResNames, ca \in BOOLEAN :
            AppendResidue(c, Len(list[c]) + 1, None, name, ca, Len(dictOrder[c]))

Sequence ==
    \E c \in Chains, allres \in BOOLEAN : GetSequence(c, allres)

Rename ==
    \E r \in Residues, name \in ChainResNames : WriteResname(r, name)

Recarbon ==
    \E r \in Residues, ca \in BOOLEAN : WriteCA(r, ca)

NextSeq == BuildOne \/ RegisterNext \/ Sequence \/ Rename \/ Recarbon
SpecSeq == InitLookup /\ [][NextSeq]_vars

(***************************************************************************)
(* SpecChid: a Chain, with or without a Segment and a selection string,    *)
(* writes to the chain identifiers, and the Chain's readers.               *)
(***************************************************************************)
BuildAny ==
    /\ Len(indices) = 0
    /\ \E idx \in IndexTuples, sel \in Opt(Selstrs), sg \in Opt({SegName}) :
            ChainInit(idx, sel, sg)

RegisterAla ==
    \E c \in Chains :
        AppendResidue(c, Len(list[c]) + 1, None, "ALA", TRUE, Len(dictOrder[c]))

Rechain ==
    \E c \in Chains, chid \in Chids : SetChid(c, chid)

Retable ==
    \E a \in Atoms, chid \in Chids : WriteChid(a, chid)

ReadChid ==
    \E c \in Chains : GetChid(c)

ReadSelstr ==
    \E c \in Chains : GetSelstr(c)

ReadResidue ==
    \E c \in Chains : GetResidue(c, 1, None)

InitChid == InitWith([Atoms -> Chids], SegSelstrs, {<<>>})
NextChid ==
    \/ BuildAny \/ RegisterAla \/ Rechain \/ Retable
    \/ ReadChid \/ ReadSelstr \/ Sequence \/ ReadResidue
SpecChid == InitChid /\ [][NextChid]_vars

(***************************************************************************)
(* SpecSegment: Chains built with and without the Segment, and writes to   *)
(* the chain identifiers.                                                  *)
(***************************************************************************)
BuildInSegment ==
    \E idx \in IndexTuples, sg \in Opt({SegName}) : ChainInit(idx, None, sg)

InitSegment == InitWith([Atoms -> Chids], OneSegsel, {<<>>})
NextSegment == Rechain \/ Retable \/ BuildInSegment
SpecSegment == InitSegment /\ [][NextSegment]_vars

(***************************************************************************)
(* The claims.                                                             *)
(***************************************************************************)
\* an absent and an empty insertion code are the same key
NormIcode(ic) == IF ic = Some("") THEN None ELSE ic
\* the Residues of Chain c registered under <<resnum, icode>>
RegisteredUnder(c, resnum, icode) ==
    {r \in Range(list[c]) : reskey[r] = <<resnum, NormIcode(icode)>>}
Found(c, resnum, icode) ==
    IF RegisteredUnder(c, resnum, icode) = {}
    THEN ret = None
    ELSE ret # None /\ RegisteredUnder(c, resnum, icode) = {ret[1]}

\* C1: getResidue(resnum, icode), chain[resnum] and chain[resnum, icode]
\* return the Residue registered under the key (an empty insertion code
\* being an absent one), also the Residue at position 0, and None when no
\* Residue is registered under it.
C1_Lookup ==
    /\ op[1] = "getResidue" => Found(op[2], op[3], op[4])
    /\ (op[1] = "getitem" /\ op[3][1] = "tuple") =>
            Found(op[2], op[3][2][1],
                  IF Len(op[3][2]) > 1 THEN op[3][2][2] ELSE None)
    /\ (op[1] = "getitem" /\ op[3][1] = "scalar") =>
            Found(op[2], op[3][2], None)

\* C1 witness: with two Residues registered, a lookup with an empty
\* insertion code returns the Residue at position 0.
C1_Witness ==
    /\ op[1] = "getResidue"
    /\ op[4] = Some("")
    /\ Len(list[op[2]]) = 2
    /\ ret = Some(list[op[2]][1])

C5_Unique ==
    \A c \in Chains :
        /\ \A k1 \in DOMAIN dict[c], k2 \in DOMAIN dict[c] :
                k1 # k2 => dict[c][k1] # dict[c][k2]
        /\ \A k \in DOMAIN dict[c] : dict[c][k] \in 0 .. (Len(list[c]) - 1)
        /\ \A i \in 1 .. Len(list[c]) :
                Cardinality({k \in DOMAIN dict[c] : dict[c][k] = i - 1}) = 1
        /\ \A i \in 1 .. Len(list[c]), j \in 1 .. Len(list[c]) :
                i # j => list[c][i] # list[c][j]

C5_Step ==
    (op'[1] = "append" /\ <<op'[3], NormIcode(op'[4])>> \in DOMAIN dict[op'[2]])
        => /\ ret' = Raise("DuplicateKey")
           /\ UNCHANGED <<dict, list>>

\* C5: registering a Residue under a key that is already registered fails
\* with DuplicateKey and leaves _list and _dict as they were; _dict maps
\* distinct keys to distinct positions and every Residue of _list is the
\* value of exactly one key.
C5_DuplicateKey == []C5_Unique /\ [][C5_Step]_vars

\* C5 witness: a registration under (resnum, '') failed with DuplicateKey
\* on a Chain that holds a Residue.
C5_Witness ==
    /\ op[1] = "append"
    /\ op[4] = Some("")
    /\ ret = Raise("DuplicateKey")
    /\ Len(list[op[2]]) >= 1

\* C2: once getSequence() has been called on a Chain with allres false,
\* every later call with allres false returns what the first call returned,
\* whatever was written to the residue names and the alpha carbons in
\* between, also when the first call returned the empty string.
C2_Cached ==
    (op[1] = "getSequence" /\ ~op[3])
        => ret = firstSeq[op[2]]

\* C3: getChid() returns the chain identifier the table holds now at
\* indices[0], whatever writes, setChid, getSequence and getResidue calls
\* came before; after setChid(v) every atom of indices has identifier v
\* and getChid() is v.
C3_ChidLive ==
    /\ op[1] = "getChid" => ret = Some(chids[indices[op[2]][1]])
    /\ op[1] = "setChid" =>
            /\ \A a \in Range(indices[op[2]]) : chids[a] = op[3]
            /\ getChid(op[2]) = op[3]

\* C3 witness: getChid() on a Chain that does not start at the table's
\* first row and has a cached sequence returns an identifier that differs
\* from the first row's.
C3_Witness ==
    /\ op[1] = "getChid"
    /\ indices[op[2]][1] # 0
    /\ seq[op[2]] # None
    /\ ret # Some(chids[0])

\* the residue numbers a range key start:stop:step asks for
InRange(n, start, stop, step) ==
    /\ start # None => start[1] <= n
    /\ stop # None => n < stop[1]
    /\ (n - (IF start = None THEN 0 ELSE start[1]))
            % (IF step = None THEN 1 ELSE step[1]) = 0

\* C4: on a Chain with a Residue, chain[start:stop:step] returns exactly
\* the Residues, over all insertion codes, whose residue number n has
\* start <= n < stop and n - start a multiple of step, for bounds omitted
\* or negative and residue numbers zero or negative.
C4_Range ==
    (op[1] = "getitem" /\ op[3][1] = "slice" /\ list[op[2]] # <<>>)
        => /\ Len(ret) = 1
           /\ Range(ret[1]) =
                {r \in Range(list[op[2]]) :
                    InRange(reskey[r][1], op[3][2], op[3][3], op[3][4])}

\* the Segment's selection string when there is a Segment, else the
\* Chain's own
Selection(c) ==
    IF segment[c] # None THEN seg_selstr ELSE selstr[c][1]

\* C6: getSelstr() is "chain <chid>" when the Chain has neither a stored
\* selection string nor a Segment, and "chain <chid> and (<selection>)"
\* otherwise, the selection being the Segment's whenever there is a Segment
\* and the Chain's own only when there is none; <chid> is getChid() now.
C6_Selstr ==
    op[1] = "getSelstr" =>
        LET c == op[2]
            chid == chids[indices[c][1]]
        IN  IF segment[c] = None /\ selstr[c] \in {None, Some("")}
            THEN ret = Some("chain " \o chid)
            ELSE ret = Some("chain " \o chid \o " and (" \o Selection(c) \o ")")

\* C6 witness: getSelstr() on a Chain with a Segment and a selection
\* string of its own.
C6_Witness ==
    /\ op[1] = "getSelstr"
    /\ segment[op[2]] # None
    /\ selstr[op[2]] = Some("resname ALA")

\* the one letter the claim gives a residue name
OneLetter(name) ==
    IF name \notin DOMAIN AAMAP THEN "X"
    ELSE IF name \in Range(AAMAP_Standard) THEN name
    ELSE AAMAP[name]

\* C7: getSequence(allres=True) returns one character for every Residue of
\* _list, in the order of _list: the one-letter code of the Residue's name
\* now, and X for a name that is not in the table.
C7_AllRes ==
    (op[1] = "getSequence" /\ op[3])
        => /\ Len(ret[1]) = Len(list[op[2]])
           /\ ret[1] = Join([i \in 1 .. Len(list[op[2]]) |->
                                OneLetter(resname[list[op[2]][i]])])

\* C8 as claimed: every Chain of the Segment's list refers back to the
\* Segment and is at the position the Segment's mapping holds for the
\* Chain's identifier, after any constructions and setChid calls.
C8_Original ==
    \A i \in 1 .. Len(seg_list) :
        /\ segment[seg_list[i]] = Some(SegName)
        /\ getChid(seg_list[i]) \in DOMAIN seg_dict
        /\ seg_dict[getChid(seg_list[i])] = i - 1

\* the last position of the Segment's list recorded under chid k
LastUnder(k) ==
    SetMax({i \in 1 .. Len(seg_keys) : seg_keys[i] = k})

C8_Linked ==
    /\ Len(seg_keys) = Len(seg_list)
    /\ \A c \in Chains : segment[c] # None <=> c \in Range(seg_list)
    /\ \A i \in 1 .. Len(seg_list), j \in 1 .. Len(seg_list) :
            i # j => seg_list[i] # seg_list[j]
    /\ DOMAIN seg_dict = Range(seg_keys)
    /\ \A k \in DOMAIN seg_dict : seg_dict[k] = LastUnder(k) - 1

C8_Step ==
    /\ (op'[1] = "init" /\ segment'[op'[2]] # None) =>
            /\ seg_list' = Append(seg_list, op'[2])
            /\ seg_keys'[Len(seg_keys')] = chids[indices'[op'[2]][1]]
            /\ \A k \in DOMAIN seg_dict :
                    k # chids[indices'[op'[2]][1]] =>
                        k \in DOMAIN seg_dict' /\ seg_dict'[k] = seg_dict[k]
    /\ (op'[1] = "init" /\ segment'[op'[2]] = None) =>
            UNCHANGED <<seg_list, seg_dict>>
    /\ op'[1] # "init" => UNCHANGED <<seg_list, seg_dict, segment>>

\* C8 amended: every Chain of the Segment's list refers back to the
\* Segment, and the Segment's mapping holds, for every identifier a Chain
\* had when it was built with the Segment, the position of the last Chain
\* built under that identifier; a construction with the Segment appends the
\* Chain at the end of the list and changes no other entry, a construction
\* without it and setChid change neither the list nor the mapping.
C8_SegmentLink == []C8_Linked /\ [][C8_Step]_vars

\* C8 witness: setChid was called on a Chain after two Chains were built
\* with the Segment.
C8_Witness ==
    /\ op[1] = "setChid"
    /\ Len(seg_list) = 2
    /\ op[2] \in Range(seg_list)

\* how many names of the list are one-letter keys of the table
RECURSIVE OneLetterNames(_)
OneLetterNames(rns) ==
    IF rns = <<>> THEN 0
    ELSE (IF Head(rns) \in Range(AAMAP_Standard) THEN 1 ELSE 0)
         + OneLetterNames(Tail(rns))

C9_ThreeLetter ==
    /\ \A aaa \in DOMAIN AAMAP_Standard :
            aaa \in DOMAIN AAMAP /\ AAMAP[aaa] = AAMAP_Standard[aaa]
    /\ AAMAP["PTR"] = AAMAP["TYR"] /\ AAMAP["TPO"] = AAMAP["THR"]
    /\ AAMAP["SEP"] = AAMAP["SER"] /\ AAMAP["CSO"] = AAMAP["CYS"]
    /\ AAMAP["HSD"] = AAMAP["HIS"] /\ AAMAP["HSP"] = AAMAP["HIS"]
    /\ AAMAP["HSE"] = AAMAP["HIS"]

Position(c, r) == CHOOSE i \in 1 .. Len(list[c]) : list[c][i] = r

\* C10: the list chain[start:stop:step] returns is in the order of _list,
\* whatever the order of registration and the order in which _dict yields
\* its keys.
C10_Ordered ==
    (op[1] = "getitem" /\ op[3][1] = "slice" /\ Len(ret) = 1)
        => \A i \in 1 .. Len(ret[1]), j \in 1 .. Len(ret[1]) :
                i < j => Position(op[2], ret[1][i]) < Position(op[2], ret[1][j])

====
